---- MODULE Spec2Model ----
(***************************************************************************)
(* Model of PSGPy: hypnogram loading (hypno.py), sleep-cycle detection and *)
(* merging (cycle_detection.py) and epoch resampling (hypno.py).           *)
(*                                                                         *)
(* Times (Onset, Duration, thresholds) are integers counting ticks of      *)
(* 1/TicksPerMin minute, so that a duration in minutes is d / TicksPerMin. *)
(* A data frame is a sequence of records; the row at position i carries    *)
(* the pandas index label i - 1.  A string is a sequence of tokens (words  *)
(* and decimal digits).  A column a stage has not created yet is absent    *)
(* from the record; a missing value is NaN, and a present number or word   *)
(* in a column that may hold NaN is boxed as <<v>>.                        *)
(***************************************************************************)
EXTENDS Integers, Sequences, FiniteSets, TLC

VARIABLES csv, hypno, pc, wake_thresh, min_length, min_separation,
          runs, cycles, resampled, err

vars == <<csv, hypno, pc, wake_thresh, min_length, min_separation,
          runs, cycles, resampled, err>>

\* ------------------------------------------------------------------ bounds
\* Resolution of the time axis: ticks per minute (10-second ticks).
TicksPerMin == 6

\* Longest recording the bounded input file holds.
MaxLen == 4

\* The lines of the bounded input file, <<stage, duration, gap before it>> in
\* ticks: every stage with a duration on either side of the thresholds, back to
\* back, and two lines that break contiguity: a NREM entry after a gap, and a
\* REM entry of no duration (the next entry then has the same onset).
InputStages == {"W", "N2", "N3", "R"}

InputDurations == {2, 3}

InputLines ==
    {<<stage, duration, 0>> : stage \in InputStages, duration \in InputDurations}
      \cup {<<"N2", 3, 1>>, <<"R", 0, 0>>}

\* The lines <<stage, duration>> of the longer contiguous input file: fewer
\* lines, one entry more.
StageLines == {<<"N2", 3>>, <<"N3", 3>>, <<"W", 2>>, <<"W", 3>>, <<"R", 3>>}

\* Most NREM periods a whole-night input file holds: enough for group labels
\* of two digits.
MaxPeriods == 10

\* The periods of the whole-night input file, each a NREM entry followed by the
\* entry ending it, <<stage, duration>> in ticks and back to back: a long
\* awakening, or REM sleep.
NightPeriods ==
    {<< <<"N2", 3>>, <<"W", 3>> >>, << <<"N2", 3>>, <<"R", 3>> >>}

\* Thresholds (ticks) passed with the bounded input file; 0 is not positive.
InputThresholds == {0, 2}

\* ------------------------------------------------------------- small helpers
NaN == <<>>

Some(v) == <<v>>

RECURSIVE SumSeq(_)
SumSeq(s) == IF s = <<>> THEN 0 ELSE Head(s) + SumSeq(Tail(s))

\* str(n) for n >= 0: the sequence of decimal digits, most significant first.
RECURSIVE Str(_)
Str(n) == IF n < 10 THEN <<n>> ELSE Str(n \div 10) \o <<n % 10>>

\* str.zfill(width): pad with zeros on the left, never truncate.
RECURSIVE ZFill(_, _)
ZFill(s, width) == IF Len(s) >= width THEN s ELSE ZFill(<<0>> \o s, width)

\* Python's string order on strings that differ only in digits: lexicographic,
\* a proper prefix first.
RECURSIVE StrLess(_, _)
StrLess(a, b) ==
    IF a = <<>> THEN b # <<>>
    ELSE IF b = <<>> THEN FALSE
    ELSE IF Head(a) # Head(b) THEN Head(a) < Head(b)
    ELSE StrLess(Tail(a), Tail(b))

\* The elements of a set of strings in increasing string order (groupby's
\* sorted group keys).
RECURSIVE SortedStrs(_)
SortedStrs(S) ==
    IF S = {} THEN <<>>
    ELSE LET m == CHOOSE x \in S : \A y \in S \ {x} : StrLess(x, y)
         IN  <<m>> \o SortedStrs(S \ {m})

\* ------------------------------------------------------ hypno.py: the reader
\* hypno_map of read_raw_hypnogram
StageN(stage) ==
    CASE stage = "W" -> 0 [] stage = "N1" -> 1 [] stage = "N2" -> 2
      [] stage = "N3" -> 3 [] stage = "R" -> 4

\* mapping of _read_hypno
SleepOf(stage) ==
    CASE stage = "W" -> "Wake" [] stage \in {"N1", "N2", "N3"} -> "NREM"
      [] stage = "R" -> "REM"

\* One line of the input file.
Line(stage, onset, duration) == [Stage |-> stage, Onset |-> onset, Duration |-> duration]

\* End of a recording (0 for no entries).
EndOf(h) == IF h = <<>> THEN 0 ELSE h[Len(h)].Onset + h[Len(h)].Duration

\* The recording of the documented scenario, (stage, onset, duration) in minutes.
ScenarioMin ==
    << <<"W", 0, 5>>, <<"N2", 5, 15>>, <<"N3", 20, 20>>, <<"W", 40, 1>>,
       <<"N1", 41, 5>>, <<"N2", 46, 60>>, <<"R", 106, 15>>, <<"W", 121, 120>> >>

ScenarioCsv ==
    [i \in 1..Len(ScenarioMin) |->
        Line(ScenarioMin[i][1], ScenarioMin[i][2] * TicksPerMin,
             ScenarioMin[i][3] * TicksPerMin)]

\* _read_hypno: entries indexed from 1, numeric stage and sleep type added.
ReadHypno(file) ==
    [i \in 1..Len(file) |->
        [Entry |-> i, Onset |-> file[i].Onset, Duration |-> file[i].Duration,
         Stage |-> file[i].Stage, StageN |-> StageN(file[i].Stage),
         Sleep |-> SleepOf(file[i].Stage)]]

\* ------------------------------------------------- hypno.py: _identify_runs
\* Run: cumulative count of the rows whose Sleep differs from the previous row's
\* (the first row differs from the shifted-in NaN).
RECURSIVE RunNumber(_, _)
RunNumber(h, i) ==
    IF i = 1 THEN 1
    ELSE RunNumber(h, i - 1) + (IF h[i].Sleep # h[i - 1].Sleep THEN 1 ELSE 0)

\* Mutant of SleepRunKey: the run number left out of the key.
MutSleepRunKey(sleep, run) == <<sleep, "_">>

\* Sleep_Run: Sleep + "_" + zero-padded run number.
SleepRunKey(sleep, run) == <<sleep, "_">> \o ZFill(Str(run), 3)

\* groupby("Sleep_Run")["Duration"].transform("sum")
RunLength(h, key) ==
    SumSeq([j \in 1..Len(h) |-> IF h[j].Sleep_Run = key THEN h[j].Duration ELSE 0])

IdentifyRuns(h) ==
    LET h1 == [i \in 1..Len(h) |-> h[i] @@ [Run |-> RunNumber(h, i)]]
        h2 == [i \in 1..Len(h) |->
                 h1[i] @@ [Sleep_Run |-> SleepRunKey(h1[i].Sleep, h1[i].Run)]]
    IN  [i \in 1..Len(h) |->
           h2[i] @@ [Sleep_Runlength |-> RunLength(h2, h2[i].Sleep_Run)]]

\* ----------------------------------------------- hypno.py: _flag_awakenings
\* The sanity check on the threshold (the type check passes on every number).
ThreshOK(thresh) == thresh > 0

\* Mutant of AwakeningOf: an awakening of exactly the threshold counted as Long.
MutAwakeningOf(row, thresh) ==
    IF row.Stage = "W" /\ row.Duration < thresh THEN Some("Short")
    ELSE IF row.Stage = "W" /\ row.Duration >= thresh THEN Some("Long")
    ELSE NaN

AwakeningOf(row, thresh) ==
    IF row.Stage = "W" /\ row.Duration <= thresh THEN Some("Short")
    ELSE IF row.Stage = "W" /\ row.Duration > thresh THEN Some("Long")
    ELSE NaN

FlagAwakenings(h, thresh) ==
    [i \in 1..Len(h) |-> h[i] @@ [Awakening |-> AwakeningOf(h[i], thresh)]]

\* ------------------------------------- cycle_detection.py: _detect_NREM_runs
\* The filtering condition on a row.
QualifiesNREM(row, minlen) == row.Sleep = "NREM" /\ row.Sleep_Runlength > minlen

\* First row, in recording order, of the filtered rows carrying the run key.
FirstOfRun(h, minlen, key) ==
    h[CHOOSE i \in 1..Len(h) :
        /\ QualifiesNREM(h[i], minlen) /\ h[i].Sleep_Run = key
        /\ \A j \in 1..(i - 1) : ~(QualifiesNREM(h[j], minlen) /\ h[j].Sleep_Run = key)]

\* One row per qualifying run, in the order of the sorted run keys, with Offset.
DetectNREMRuns(h, minlen) ==
    LET keys == SortedStrs({h[i].Sleep_Run :
                              i \in {j \in 1..Len(h) : QualifiesNREM(h[j], minlen)}})
    IN  [k \in 1..Len(keys) |->
           LET r == FirstOfRun(h, minlen, keys[k])
           IN  r @@ [Offset |-> r.Onset + r.Sleep_Runlength]]

\* ---------------------------------- cycle_detection.py: _segregate_NREM_runs
\* Gap to the next run; NaN for the last run (shift(-1) brings in NaN).
NextRun(rs, i) ==
    IF i < Len(rs) THEN Some(rs[i + 1].Onset - rs[i].Offset) ELSE NaN

\* Mutant of GapExceeds: a gap equal to the threshold splits too.
MutGapExceeds(gap, minsep) == gap # NaN /\ gap[1] >= minsep

\* The filtering condition; a comparison with NaN is False.
GapExceeds(gap, minsep) == gap # NaN /\ gap[1] > minsep

\* cumsum of the condition over rows 1..i
RECURSIVE CumSum(_, _, _)
CumSum(rs, minsep, i) ==
    IF i = 0 THEN 0
    ELSE CumSum(rs, minsep, i - 1) + (IF GapExceeds(NextRun(rs, i), minsep) THEN 1 ELSE 0)

\* (1 + condition.cumsum()).shift(fill_value=1)
CycleNumber(rs, minsep, i) == IF i = 1 THEN 1 ELSE 1 + CumSum(rs, minsep, i - 1)

\* "CYC_" + str(number)
CycLabel(n) == <<"CYC_">> \o Str(n)

SegregateNREMRuns(rs, minsep) ==
    [i \in 1..Len(rs) |->
        rs[i] @@ [Next_Run |-> NextRun(rs, i), CYC |-> CycLabel(CycleNumber(rs, minsep, i))]]

\* --------------------------------- cycle_detection.py: _detect_cycle_offsets
\* The upper limit written on the last run: end of recording minus its offset.
CloseLastRun(h, rs) ==
    [i \in 1..Len(rs) |->
        IF i = Len(rs)
        THEN [rs[i] EXCEPT !.Next_Run = Some(EndOf(h) - rs[i].Offset)]
        ELSE rs[i]]

\* Mutant of WindowPositions: the lower limit included.
MutWindowPositions(h, lowerlim, upperlim) ==
    SelectSeq([i \in 1..Len(h) |-> i],
              LAMBDA i : h[i].Onset >= lowerlim /\ h[i].Onset < upperlim)

\* Positions of the rows of the search window (lowerlim, upperlim), in order.
WindowPositions(h, lowerlim, upperlim) ==
    SelectSeq([i \in 1..Len(h) |-> i],
              LAMBDA i : h[i].Onset > lowerlim /\ h[i].Onset < upperlim)

\* Condition 1 holds: the window has a REM row.
HasREM(h, win) == \E k \in 1..Len(win) : h[win[k]].Sleep = "REM"

\* Mutant of N3WTransitions: the missing value shifted in after the last row of
\* the window taken for W, so that an N3 row ending the window counts.
MutN3WTransitions(h, win) ==
    {k \in 1..Len(win) :
        /\ h[win[k]].Stage = "N3"
        /\ (k = Len(win) \/ h[win[k + 1]].Stage = "W")}

\* The rows of the window that are N3 and whose next row in the window is W.
N3WTransitions(h, win) ==
    {k \in 1..Len(win) :
        /\ h[win[k]].Stage = "N3"
        /\ k < Len(win) /\ h[win[k + 1]].Stage = "W"}

\* Condition 2 holds: the window has N3 and has an N3-W transition.
HasN3W(h, win) ==
    /\ \E k \in 1..Len(win) : h[win[k]].Stage = "N3"
    /\ N3WTransitions(h, win) # {}

\* Condition 3 holds: the window has a long awakening.
HasLong(h, win) == \E k \in 1..Len(win) : h[win[k]].Awakening = Some("Long")

\* Mutant of MatchedCondition: the N3-W transition tried before REM.
MutMatchedCondition(h, win) ==
    IF HasN3W(h, win) THEN "Last_N3_Before_Awakening"
    ELSE IF HasREM(h, win) THEN "Last_REM"
    ELSE IF HasLong(h, win) THEN "Long_Awakening"
    ELSE "none"

\* The if / elif chain: the first of the three conditions that holds.
MatchedCondition(h, win) ==
    IF HasREM(h, win) THEN "Last_REM"
    ELSE IF HasN3W(h, win) THEN "Last_N3_Before_Awakening"
    ELSE IF HasLong(h, win) THEN "Long_Awakening"
    ELSE "none"

\* The offset found for one window by the branch taken, or NaN (switch False).
\* win[k] is the position in the recording of the row the offset is read from.
FindOffset(h, win) ==
    LET matched == MatchedCondition(h, win)
    IN  IF matched = "Last_REM"
        THEN LET k == CHOOSE x \in 1..Len(win) :
                         /\ h[win[x]].Sleep = "REM"
                         /\ \A y \in (x + 1)..Len(win) : h[win[y]].Sleep # "REM"
                 row == h[win[k]]
             IN  Some([offset_min |-> row.Onset + row.Duration, offset |-> "Last_REM",
                       offset_entry |-> row.Entry, offset_idx |-> win[k] - 1])
        ELSE IF matched = "Last_N3_Before_Awakening"
        THEN LET k == CHOOSE x \in N3WTransitions(h, win) :
                         \A y \in N3WTransitions(h, win) : x <= y
                 row == h[win[k]]
             IN  Some([offset_min |-> row.Onset + row.Duration,
                       offset |-> "Last_N3_Before_Awakening",
                       offset_entry |-> row.Entry, offset_idx |-> win[k] - 1])
        ELSE IF matched = "Long_Awakening"
        THEN LET k == CHOOSE x \in 1..Len(win) :
                         /\ h[win[x]].Awakening = Some("Long")
                         /\ \A y \in 1..(x - 1) : h[win[y]].Awakening # Some("Long")
                 row == h[win[k]]
             IN  Some([offset_min |-> row.Onset, offset |-> "Long_Awakening",
                       offset_entry |-> row.Entry - 1, offset_idx |-> (win[k] - 1) - 1])
        ELSE NaN

\* The runs of one group, in run-table order.
Chunk(rs, label) == SelectSeq(rs, LAMBDA r : r.CYC = label)

\* Lower and upper limits of a group's search window.
LowerLim(chunk) == chunk[1].Onset

\* Mutant of UpperLim: the distance to the next run left out.
MutUpperLim(chunk) == chunk[Len(chunk)].Offset

UpperLim(chunk) == chunk[Len(chunk)].Offset + chunk[Len(chunk)].Next_Run[1]

\* The records one group appends to the aggregator: one, or none.
CycleOf(h, rs, label) ==
    LET chunk == Chunk(rs, label)
        lowerlim == LowerLim(chunk)
        found == FindOffset(h, WindowPositions(h, lowerlim, UpperLim(chunk)))
    IN  IF found = NaN THEN <<>>
        ELSE << [Cycle |-> label, Onset |-> lowerlim, Offset |-> found[1].offset_min,
                 Duration |-> found[1].offset_min - lowerlim,
                 Offset_Mode |-> found[1].offset,
                 Onset_Entry |-> chunk[1].Entry, Offset_Entry |-> found[1].offset_entry,
                 Onset_idx |-> chunk[1].Entry - 1, Offset_idx |-> found[1].offset_idx] >>

\* Labels of the groups in the order groupby visits them (sorted as strings).
GroupLabels(rs) == SortedStrs({rs[i].CYC : i \in 1..Len(rs)})

RECURSIVE CyclesOver(_, _, _)
CyclesOver(h, rs, labels) ==
    IF labels = <<>> THEN <<>>
    ELSE CycleOf(h, rs, Head(labels)) \o CyclesOver(h, rs, Tail(labels))

\* The loop over the groups; rs is the closed run table.
DetectCycleOffsets(h, rs) == CyclesOver(h, rs, GroupLabels(rs))

\* ------------------------------ cycle_detection.py: update_hypnogram_cycles
\* Mutant of AssignCycle: the end label excluded, as in a positional slice.
MutAssignCycle(h, cycle) ==
    [i \in 1..Len(h) |->
        IF cycle.Onset_idx <= i - 1 /\ i - 1 < cycle.Offset_idx
        THEN [Cycle_Num |-> cycle.Cycle, Cycle_Duration |-> Some(cycle.Duration),
              Cycle_Offset_Mode |-> Some(cycle.Offset_Mode)] @@ h[i]
        ELSE h[i] @@ [Cycle_Num |-> NaN, Cycle_Duration |-> NaN,
                      Cycle_Offset_Mode |-> NaN]]

\* hypno.loc[start:end, column] = value for the three columns: rows whose
\* index label lies in [start, end] take the cycle's values, the others keep
\* theirs, or NaN where the column is created by this assignment.
AssignCycle(h, cycle) ==
    [i \in 1..Len(h) |->
        IF cycle.Onset_idx <= i - 1 /\ i - 1 <= cycle.Offset_idx
        THEN [Cycle_Num |-> cycle.Cycle, Cycle_Duration |-> Some(cycle.Duration),
              Cycle_Offset_Mode |-> Some(cycle.Offset_Mode)] @@ h[i]
        ELSE h[i] @@ [Cycle_Num |-> NaN, Cycle_Duration |-> NaN,
                      Cycle_Offset_Mode |-> NaN]]

RECURSIVE UpdateHypnogramCycles(_, _)
UpdateHypnogramCycles(h, cs) ==
    IF cs = <<>> THEN h
    ELSE UpdateHypnogramCycles(AssignCycle(h, Head(cs)), Tail(cs))

\* ------------------------------------------ hypno.py: resample_hypnogram
\* 1 minute = 2 epochs
unit == 2

\* Mutant of Epochs: rounded to the nearest integer instead of cut off.
MutEpochs(ticks) == (2 * ticks * unit + TicksPerMin) \div (2 * TicksPerMin)

\* (minutes * unit).astype("int") of a non-negative time given in ticks:
\* the fraction is cut off.
Epochs(ticks) == (ticks * unit) \div TicksPerMin

\* np.repeat of one row: its epochs, each with the row's index label and stage
\* columns (and cycle column when cycles are given).
EpochRow(h, i, withCycles) ==
    IF withCycles
    THEN [Hypnogram_Entry |-> i - 1, Stage |-> h[i].Stage, StageN |-> h[i].StageN,
          Cycle_Num |-> h[i].Cycle_Num]
    ELSE [Hypnogram_Entry |-> i - 1, Stage |-> h[i].Stage, StageN |-> h[i].StageN]

Copies(x, n) == [k \in 1..n |-> x]

\* np.repeat(column, repeats=ntimes): row i repeated Epochs(Duration) times.
RECURSIVE RepeatRows(_, _, _)
RepeatRows(h, i, withCycles) ==
    IF i > Len(h) THEN <<>>
    ELSE Copies(EpochRow(h, i, withCycles), Epochs(h[i].Duration))
         \o RepeatRows(h, i + 1, withCycles)

\* The tidy frame: the repeated rows numbered from 0.
Resampled(h, withCycles) ==
    LET rows == RepeatRows(h, 1, withCycles)
    IN  [e \in 1..Len(rows) |-> rows[e] @@ [Epoch_number |-> e - 1]]

\* Total duration in epochs, both ways, and the assertion comparing them.
TotalDurn(h) == SumSeq([i \in 1..Len(h) |-> Epochs(h[i].Duration)])

TotalDurnAlt(h) == Epochs(h[Len(h)].Onset + h[Len(h)].Duration)

ConsistentDurations(h) == TotalDurn(h) = TotalDurnAlt(h)

\* The Cycle_Num column exists once an assignment has created it.
HasCycleColumn(h) == h # <<>> /\ "Cycle_Num" \in DOMAIN h[1]

\* ------------------------------------------------------------ default arguments
\* load_hypnogram(file, wake_thresh=2), in minutes
DefaultWakeThresh == 2

\* detect_cycles(hypno, min_length=10, min_separation=10), in minutes
DefaultMinLength == 10

DefaultMinSeparation == 10

\* The thresholds a caller passes: the defaults with the scenario file, the
\* bounded thresholds with a bounded file.
WakeThreshInputs ==
    IF csv = ScenarioCsv THEN {DefaultWakeThresh * TicksPerMin} ELSE InputThresholds

MinLengthInputs ==
    IF csv = ScenarioCsv THEN {DefaultMinLength * TicksPerMin} ELSE InputThresholds

MinSeparationInputs ==
    IF csv = ScenarioCsv THEN {DefaultMinSeparation * TicksPerMin} ELSE InputThresholds

\* ------------------------------------------------------------------- actions
\* pc names the last call made ("file" before any); err is "none" or the
\* exception that call raised.  A call is made only after calls that returned.
Init ==
    /\ csv \in {<<>>, ScenarioCsv}
    /\ hypno = <<>>
    /\ pc = "file"
    /\ wake_thresh = NaN
    /\ min_length = NaN
    /\ min_separation = NaN
    /\ runs = <<>>
    /\ cycles = <<>>
    /\ resampled = <<>>
    /\ err = "none"

\* The bounded input file grows by one line.
WriteLine ==
    /\ pc = "file"
    /\ Len(csv) < MaxLen
    /\ \E line \in InputLines :
          csv' = Append(csv, Line(line[1], EndOf(csv) + line[3], line[2]))
    /\ UNCHANGED <<hypno, pc, wake_thresh, min_length, min_separation,
                   runs, cycles, resampled, err>>

\* load_hypnogram(file, wake_thresh)
LoadHypnogram ==
    /\ pc = "file"
    /\ pc' = "load_hypnogram"
    /\ \E thresh \in WakeThreshInputs :
          /\ wake_thresh' = thresh
          /\ IF ThreshOK(thresh)
             THEN /\ hypno' = FlagAwakenings(IdentifyRuns(ReadHypno(csv)), thresh)
                  /\ err' = "none"
             ELSE /\ hypno' = hypno
                  /\ err' = "AssertionError"
    /\ UNCHANGED <<csv, min_length, min_separation, runs, cycles, resampled>>

\* detect_cycles(hypno, min_length, min_separation)
DetectCycles ==
    /\ pc = "load_hypnogram" /\ err = "none"
    /\ pc' = "detect_cycles"
    /\ \E minlen \in MinLengthInputs, minsep \in MinSeparationInputs :
          LET rs == SegregateNREMRuns(DetectNREMRuns(hypno, minlen), minsep)
          IN  /\ min_length' = minlen
              /\ min_separation' = minsep
              /\ IF rs = <<>>
                 THEN /\ runs' = rs
                      /\ cycles' = cycles
                      /\ err' = "IndexError"
                 ELSE /\ runs' = CloseLastRun(hypno, rs)
                      /\ cycles' = DetectCycleOffsets(hypno, CloseLastRun(hypno, rs))
                      /\ err' = "none"
    /\ UNCHANGED <<csv, hypno, wake_thresh, resampled>>

\* update_hypnogram_cycles(hypno, cycles)
MergeCycles ==
    /\ pc = "detect_cycles" /\ err = "none"
    /\ pc' = "update_hypnogram_cycles"
    /\ hypno' = UpdateHypnogramCycles(hypno, cycles)
    /\ UNCHANGED <<csv, wake_thresh, min_length, min_separation, runs, cycles,
                   resampled, err>>

\* resample_hypnogram(hypno) on a loaded hypnogram, and
\* resample_hypnogram(hypno, cycles) on a merged one.
ResampleHypnogram ==
    /\ pc \in {"load_hypnogram", "update_hypnogram_cycles"} /\ err = "none"
    /\ pc' = "resample_hypnogram"
    /\ LET withCycles == pc = "update_hypnogram_cycles"
       IN  IF hypno = <<>>
           THEN err' = "IndexError" /\ resampled' = resampled
           ELSE IF ~ConsistentDurations(hypno)
           THEN err' = "AssertionError" /\ resampled' = resampled
           ELSE IF withCycles /\ ~HasCycleColumn(hypno)
           THEN err' = "KeyError" /\ resampled' = resampled
           ELSE err' = "none" /\ resampled' = Resampled(hypno, withCycles)
    /\ UNCHANGED <<csv, hypno, wake_thresh, min_length, min_separation, runs, cycles>>

Next ==
    \/ WriteLine
    \/ LoadHypnogram
    \/ DetectCycles
    \/ MergeCycles
    \/ ResampleHypnogram

Spec == Init /\ [][Next]_vars

\* The longer contiguous input file grows by one line.
WriteStageLine ==
    /\ pc = "file"
    /\ Len(csv) < MaxLen + 1
    /\ \E line \in StageLines :
          csv' = Append(csv, Line(line[1], EndOf(csv), line[2]))
    /\ UNCHANGED <<hypno, pc, wake_thresh, min_length, min_separation,
                   runs, cycles, resampled, err>>

NextStages ==
    \/ WriteStageLine
    \/ LoadHypnogram
    \/ DetectCycles
    \/ MergeCycles
    \/ ResampleHypnogram

\* The program on contiguous recordings of one entry more.
SpecStages == Init /\ [][NextStages]_vars

\* The whole-night input file grows by one NREM period (two lines).
WritePeriod ==
    /\ pc = "file"
    /\ csv # ScenarioCsv
    /\ Len(csv) < 2 * MaxPeriods
    /\ \E period \in NightPeriods :
          LET first == Line(period[1][1], EndOf(csv), period[1][2])
          IN  csv' = csv \o << first,
                               Line(period[2][1], first.Onset + first.Duration,
                                    period[2][2]) >>
    /\ UNCHANGED <<hypno, pc, wake_thresh, min_length, min_separation,
                   runs, cycles, resampled, err>>

NextNight ==
    \/ WritePeriod
    \/ LoadHypnogram
    \/ DetectCycles
    \/ MergeCycles
    \/ ResampleHypnogram

\* The program on contiguous whole-night recordings of up to MaxPeriods periods.
SpecNight == Init /\ [][NextNight]_vars

\* ---------------------------------------------------------------- the claims
\* What the claims speak of, read off the state after a call.
Returned(call) == pc = call /\ err = "none"

Raised(call) == pc = call /\ err # "none"

\* The cycle groups of the run table and, for a group g, its runs.
Groups == {runs[i].CYC : i \in 1..Len(runs)}

GroupRuns(g) == {i \in 1..Len(runs) : runs[i].CYC = g}

FirstRunOf(g) == CHOOSE i \in GroupRuns(g) : \A j \in GroupRuns(g) : i <= j

LastRunOf(g) == CHOOSE i \in GroupRuns(g) : \A j \in GroupRuns(g) : i >= j

\* Upper end of g's search window: the onset of the next group's first run, or
\* the end of the recording for the last group.
WindowEnd(g) ==
    IF LastRunOf(g) < Len(runs) THEN runs[LastRunOf(g) + 1].Onset ELSE EndOf(hypno)

\* The entries of g's search window, as positions in the recording.
SearchWindow(g) ==
    {p \in 1..Len(hypno) :
        hypno[p].Onset > runs[FirstRunOf(g)].Onset /\ hypno[p].Onset < WindowEnd(g)}

WindowHasREM(g) == \E p \in SearchWindow(g) : hypno[p].Stage = "R"

WindowHasN3ThenW(g) ==
    \E p \in SearchWindow(g) :
        hypno[p].Stage = "N3" /\ p + 1 \in SearchWindow(g) /\ hypno[p + 1].Stage = "W"

\* The Wake entries of the window longer than wake_thresh.
WindowLongWakes(g) ==
    {p \in SearchWindow(g) : hypno[p].Stage = "W" /\ hypno[p].Duration > wake_thresh}

\* The cycle records of group g.
RecordsOf(g) == {k \in 1..Len(cycles) : cycles[k].Cycle = g}

ModeOf(g) ==
    IF RecordsOf(g) = {} THEN "none"
    ELSE cycles[CHOOSE k \in RecordsOf(g) : TRUE].Offset_Mode

NoRunQualifies ==
    \A i \in 1..Len(hypno) :
        hypno[i].Sleep = "NREM" => hypno[i].Sleep_Runlength <= min_length

\* C2 (as claimed): whenever no NREM run has total duration greater than
\* min_length, detect_cycles with positive thresholds returns an empty cycle
\* sequence and raises no error.
C2_EmptyWithoutError ==
    (/\ pc = "detect_cycles"
     /\ wake_thresh > 0 /\ min_length > 0 /\ min_separation > 0
     /\ NoRunQualifies)
        => (err = "none" /\ cycles = <<>>)

\* C3: every cycle record detect_cycles returns has offset_min > onset_min and
\* duration_min = offset_min - onset_min.
C3_OffsetAfterOnset ==
    Returned("detect_cycles") =>
        \A k \in 1..Len(cycles) :
            /\ cycles[k].Offset > cycles[k].Onset
            /\ cycles[k].Duration = cycles[k].Offset - cycles[k].Onset

\* C3 witness: cycles terminated by two different rules are returned, the
\* first of them starting after the beginning of the recording.
C3_Witness ==
    /\ Returned("detect_cycles")
    /\ \E k, l \in 1..Len(cycles) :
          /\ cycles[k].Offset_Mode = "Long_Awakening" /\ cycles[k].Onset > 0
          /\ cycles[l].Offset_Mode = "Last_REM"

\* The resolved cycles whose entry range [onset_entry_id, offset_entry_id]
\* holds the entry.
CyclesCovering(entry) ==
    {k \in 1..Len(cycles) :
        cycles[k].Onset_Entry <= entry /\ entry <= cycles[k].Offset_Entry}

\* The cycle fields of a row are null: never created, or NaN.
CycleFieldsNull(row) ==
    \/ "Cycle_Num" \notin DOMAIN row
    \/ /\ row.Cycle_Num = NaN
       /\ row.Cycle_Duration = NaN
       /\ row.Cycle_Offset_Mode = NaN

\* C4: after update_hypnogram_cycles with the cycles detect_cycles returned,
\* every entry in the entry range of a resolved cycle carries that cycle's id,
\* duration and offset mode, and every entry in no cycle's range has null
\* cycle fields.
C4_MergeCompleteness ==
    Returned("update_hypnogram_cycles") =>
        \A i \in 1..Len(hypno) :
            /\ \A k \in CyclesCovering(hypno[i].Entry) :
                  /\ "Cycle_Num" \in DOMAIN hypno[i]
                  /\ hypno[i].Cycle_Num = cycles[k].Cycle
                  /\ hypno[i].Cycle_Duration = Some(cycles[k].Duration)
                  /\ hypno[i].Cycle_Offset_Mode = Some(cycles[k].Offset_Mode)
            /\ CyclesCovering(hypno[i].Entry) = {} => CycleFieldsNull(hypno[i])

\* C4 witness: a merge of a resolved cycle spanning several entries, in a
\* recording with a dropped group whose entries stay null beside it.
C4_Witness ==
    /\ Returned("update_hypnogram_cycles")
    /\ \E k \in 1..Len(cycles) : cycles[k].Offset_Entry > cycles[k].Onset_Entry
    /\ \E g \in Groups :
          /\ RecordsOf(g) = {}
          /\ "Cycle_Num" \in DOMAIN hypno[runs[FirstRunOf(g)].Entry]
          /\ CycleFieldsNull(hypno[runs[FirstRunOf(g)].Entry])

\* The first Long awakening of g's window, in onset order.
FirstLongWake(g) ==
    CHOOSE p \in WindowLongWakes(g) : \A q \in WindowLongWakes(g) : p <= q

SomeRunQualifies ==
    \E i \in 1..Len(hypno) :
        hypno[i].Sleep = "NREM" /\ hypno[i].Sleep_Runlength > min_length

\* C6 (as claimed): a non-positive wake_thresh, min_length or min_separation is
\* rejected with a configuration error (the assertion of the sanity checks),
\* before any processing and with no partial result.  For detect_cycles the
\* claim is stated on the recordings that have a qualifying run, where a call
\* that is not rejected goes on to build the run table.
C6_NonPositiveRejected ==
    /\ (pc = "load_hypnogram" /\ wake_thresh <= 0)
          => (err = "AssertionError" /\ hypno = <<>>)
    /\ (pc = "detect_cycles" /\ SomeRunQualifies
          /\ (min_length <= 0 \/ min_separation <= 0))
          => (err = "AssertionError" /\ runs = <<>> /\ cycles = <<>>)

\* round(minutes * 2) of a non-negative time in ticks, halves to even as
\* Python rounds; and the same with the fraction cut off.
RoundEpochs(ticks) ==
    LET q == (2 * ticks) \div TicksPerMin
        r == (2 * ticks) % TicksPerMin
    IN  IF 2 * r < TicksPerMin THEN q
        ELSE IF 2 * r > TicksPerMin THEN q + 1
        ELSE IF q % 2 = 0 THEN q ELSE q + 1

FloorEpochs(ticks) == (2 * ticks) \div TicksPerMin

\* The rows of the resampled output that came from the entry at position i,
\* told by the entry id they carry, or by the 0-based row index they carry.
RowsWithId(i) ==
    {e \in 1..Len(resampled) : resampled[e].Hypnogram_Entry = hypno[i].Entry}

RowsWithIndex(i) ==
    {e \in 1..Len(resampled) : resampled[e].Hypnogram_Entry = i - 1}

\* The output is numbered 0, 1, 2, ... and is in entry order.
NumberedInEntryOrder ==
    /\ \A e \in 1..Len(resampled) : resampled[e].Epoch_number = e - 1
    /\ \A e \in 1..(Len(resampled) - 1) :
          resampled[e].Hypnogram_Entry <= resampled[e + 1].Hypnogram_Entry

CyclesPassed == runs # <<>>

C8_Scenario ==
    (csv = ScenarioCsv /\ pc = "detect_cycles") =>
        /\ wake_thresh = 2 * TicksPerMin
        /\ min_length = 10 * TicksPerMin /\ min_separation = 10 * TicksPerMin
        /\ err = "none"
        /\ Len(runs) = 2
        /\ runs[1].Onset = 5 * TicksPerMin /\ runs[1].Offset = 40 * TicksPerMin
        /\ runs[2].Onset = 41 * TicksPerMin /\ runs[2].Offset = 106 * TicksPerMin
        /\ runs[1].CYC = runs[2].CYC
        /\ Len(cycles) = 1
        /\ cycles[1].Onset = 5 * TicksPerMin
        /\ cycles[1].Offset = 121 * TicksPerMin
        /\ cycles[1].Offset_Mode = "Last_REM"

\* C8 witness: detect_cycles has been called on the scenario.
C8_Witness == csv = ScenarioCsv /\ pc = "detect_cycles" /\ Len(cycles) = 1

\* C9: after run encoding the first entry starts run 1, the run number goes up
\* by one exactly at the entries whose sleep class differs from the previous
\* entry's (so each entry is in one run, runs are maximal same-class blocks and
\* adjacent runs differ in class), and sleep_run_length of every entry is the
\* sum of the durations of the entries of its run.
C9_RunEncoding ==
    Returned("load_hypnogram") =>
        /\ hypno # <<>> => hypno[1].Run = 1
        /\ \A i \in 2..Len(hypno) :
              hypno[i].Run = hypno[i - 1].Run
                  + (IF hypno[i].Sleep # hypno[i - 1].Sleep THEN 1 ELSE 0)
        /\ \A i, j \in 1..Len(hypno) :
              /\ hypno[i].Run = hypno[j].Run => hypno[i].Sleep = hypno[j].Sleep
              /\ (hypno[i].Run + 1 = hypno[j].Run) => hypno[i].Sleep # hypno[j].Sleep
        /\ \A i \in 1..Len(hypno) :
              hypno[i].Sleep_Runlength =
                  SumSeq([j \in 1..Len(hypno) |->
                            IF hypno[j].Run = hypno[i].Run THEN hypno[j].Duration ELSE 0])

\* C9 witness: a loaded recording with a run of several entries and two
\* separate runs of the same sleep class.
C9_Witness ==
    /\ Returned("load_hypnogram")
    /\ \E i \in 2..Len(hypno) : hypno[i].Run = hypno[i - 1].Run
    /\ \E i, j \in 1..Len(hypno) :
          hypno[i].Sleep = hypno[j].Sleep /\ hypno[i].Run # hypno[j].Run

\* The group number a run carries in its label.
GroupNumber(i) == CHOOSE n \in 1..Len(runs) : runs[i].CYC = CycLabel(n)

\* C10: the run table is ordered by onset, its first run is in group 1, and a
\* later run i is in the group after run i-1's when the gap between them
\* (onset of i minus offset of i-1) is greater than min_separation and in run
\* i-1's group otherwise; the last run's gap is measured to the end of the
\* recording and plays no part in the numbering.
C10_GroupNumbering ==
    (Returned("detect_cycles") /\ runs # <<>>) =>
        /\ \A i \in 2..Len(runs) : runs[i - 1].Onset < runs[i].Onset
        /\ \A i \in 1..Len(runs) : \E n \in 1..Len(runs) : runs[i].CYC = CycLabel(n)
        /\ GroupNumber(1) = 1
        /\ \A i \in 2..Len(runs) :
              GroupNumber(i) =
                  GroupNumber(i - 1)
                    + (IF runs[i].Onset - runs[i - 1].Offset > min_separation
                       THEN 1 ELSE 0)
        /\ runs[Len(runs)].Next_Run = Some(EndOf(hypno) - runs[Len(runs)].Offset)

\* C10 witness: two runs share a group across a gap of exactly min_separation,
\* while the last run's gap to the end of the recording is greater.
C10_Witness ==
    /\ Returned("detect_cycles")
    /\ min_separation > 0
    /\ \E i \in 2..Len(runs) :
          /\ runs[i].Onset - runs[i - 1].Offset = min_separation
          /\ runs[i].CYC = runs[i - 1].CYC
    /\ EndOf(hypno) - runs[Len(runs)].Offset > min_separation

\* The N3 entries of g's window whose next entry, inside the window, is W.
WindowN3ThenW(g) ==
    {p \in SearchWindow(g) :
        hypno[p].Stage = "N3" /\ p + 1 \in SearchWindow(g) /\ hypno[p + 1].Stage = "W"}

FirstN3ThenW(g) == CHOOSE p \in WindowN3ThenW(g) : \A q \in WindowN3ThenW(g) : p <= q

Gapless ==
    \A i \in 1..(Len(hypno) - 1) :
        hypno[i + 1].Onset = hypno[i].Onset + hypno[i].Duration

\* C12: for a gapless recording the cycles detect_cycles returns are ordered by
\* onset and disjoint: of two consecutive records the earlier one's offset is
\* at most the later one's onset, for any number of cycle groups.
C12_OrderedDisjoint ==
    (Returned("detect_cycles") /\ Gapless) =>
        \A k \in 1..(Len(cycles) - 1) : cycles[k].Offset <= cycles[k + 1].Onset

====
